---- MODULE Spec2Model ----
(***************************************************************************)
(* Emergency incident backend: the POST /report pipeline (loose-window     *)
(* duplicate detection, tight-window auto-merge, creation), the PATCH      *)
(* operations on stored incidents and the broadcasts they emit.            *)
(*                                                                         *)
(* The MongoDB collection is the variable store; every await on the store  *)
(* or on the Gemini service is one step of a request, so two requests      *)
(* interleave exactly where the event loop lets them.                      *)
(*                                                                         *)
(* Units: time in minutes, coordinates in metres of arc.  All modelled     *)
(* points lie on one meridian (lng = Lng0), where the haversine distance   *)
(* is R * |delta phi|, i.e. the difference of the two lat values.          *)
(***************************************************************************)
EXTENDS Integers, Sequences, FiniteSets, Bags, TLC

\* ---------------------------------------------------------------- bounds
MaxReq  == 2      \* report requests of one run
MaxOps  == 2      \* PATCH / re-analyze operations of one run
MaxTime == 40     \* the clock stops here
MaxJudg == 1      \* judgments in one oracle answer

\* ------------------------------------------------------ program constants
TightRadius  == 100     \* distance <= 100
TightMinutes == 30      \* 30 * 60 * 1000 ms
LooseRadius  == 500     \* distance <= 500
LooseMinutes == 120     \* 2 * 60 * 60 * 1000 ms

\* ------------------------------------------------- JavaScript values
\* A field that is not there reads as undefined, and arithmetic on it
\* gives NaN; both lie outside every number the model computes with
undefined == 0 - 2 ^ 30
NaN       == 1 - 2 ^ 30

\* a <= b and a > b of JavaScript: false when an operand is NaN
LessOrEqual(a, b) == a # NaN /\ b # NaN /\ a <= b
GreaterThan(a, b) == a # NaN /\ b # NaN /\ a > b

\* ------------------------------------------------------------ input sets
Lng0         == 7000     \* the meridian of every modelled point
TickStep     == 20       \* minutes between two readings of the clock
Lats         == {1100, 1250}
AiSeverities == {"High"}

validTypes    == {"Fire", "Accident", "Medical", "Crime", "Infrastructure"}

\* The request bodies tried: three valid reports and one body for each way
\* the validation can reject (a coordinate that is 0, one that is missing)
Report(type, description, lat, lng) ==
    [type |-> type, description |-> description, lat |-> lat, lng |-> lng]
Reports ==
    {Report("Fire", "smoke", lat, Lng0) : lat \in Lats}
    \cup {Report("Medical", "smoke", 1100, Lng0),
          Report("", "smoke", 1100, Lng0), Report("Riot", "smoke", 1100, Lng0),
          Report("Fire", "", 1100, Lng0), Report("Fire", "smoke", 0, Lng0),
          Report("Fire", "smoke", 1100, 0),
          Report("Fire", "smoke", undefined, Lng0),
          Report("Fire", "smoke", 1100, undefined)}
validStatuses == {"Reported", "Verified", "In Progress", "Dispatched", "Resolved", "Closed"}
StatusInputs  == {"Resolved"}

Reqs == 1 .. MaxReq

Abs(x) == IF x < 0 THEN 0 - x ELSE x

\* Haversine distance, in metres.  On the common meridian it is the lat
\* difference; the other branch (never taken: every stored and accepted
\* point has lng = Lng0) bounds it from above.  NaN when a coordinate is
\* missing.
calculateDistance(lat1, lng1, lat2, lng2) ==
    IF undefined \in {lat1, lng1, lat2, lng2} THEN NaN
    ELSE IF lng1 = lng2 THEN Abs(lat2 - lat1)
    ELSE Abs(lat2 - lat1) + Abs(lng2 - lng1)

VARIABLES
    store,      \* the incidents collection: sequence of documents, _id = index
    req,        \* req[r]: the state of report request r
    now,        \* Date.now(), in minutes
    emitted,    \* the socket events emitted so far (a bag)
    ops,        \* number of PATCH / re-analyze operations done
    res         \* the GET request being served, then its response

vars == <<store, req, now, emitted, ops, res>>

NoDoc == [none |-> TRUE]

\* No GET request has been made
NoRes == [pc |-> "none"]

IdleReq == [pc |-> "idle", type |-> "", description |-> "", lat |-> 0, lng |-> 0,
            nearby |-> <<>>, oracle |-> "none", duplicates |-> <<>>,
            matched |-> 0, doc |-> NoDoc, failedAt |-> "none",
            status |-> "none", incident |-> 0]

\* The answered request: what the response carries (status, the incident's
\* id) and the record of what happened on the way; its locals are gone.
Done(q, status, incident) ==
    [IdleReq EXCEPT !.pc = "done", !.status = status, !.incident = incident,
                    !.oracle = q.oracle, !.failedAt = q.failedAt]

\* ------------------------------------------------------------ the schema
\* new Incident({... upvotes: 1, status: 'Reported', verified: false,
\*               timestamp: new Date()})
NewIncident(type, description, lat, lng, severity, t) ==
    [type |-> type, description |-> description, lat |-> lat, lng |-> lng,
     severity |-> severity, status |-> "Reported", verified |-> FALSE,
     upvotes |-> 1, timestamp |-> t]

\* A stored incident a run may start with: a fire reported ten minutes ago
Seed == NewIncident("Fire", "smoke", 1000, Lng0, "Medium", 0 - 10)

Ids == 1 .. Len(store)

Emit(events) == emitted (+) SetToBag(events)

\* Incident.find({ timestamp: { $gte: since } }) and
\* Incident.find({ type, timestamp: { $gte: since } }): ids in natural order
RECURSIVE FindSince(_, _, _, _)
FindSince(s, i, since, type) ==
    IF i > Len(s) THEN <<>>
    ELSE IF s[i].timestamp >= since /\ (type = "" \/ s[i].type = type)
         THEN <<i>> \o FindSince(s, i + 1, since, type)
         ELSE FindSince(s, i + 1, since, type)

SeqFilterNear(s, ids, lat, lng, since, radius) ==
    SelectSeq(ids, LAMBDA i :
        /\ ~ (s[i].timestamp < since)
        /\ LessOrEqual(calculateDistance(lat, lng, s[i].lat, s[i].lng), radius))

Init ==
    /\ store \in {<<>>, <<Seed>>}
    /\ req = [r \in Reqs |-> IdleReq]
    /\ now = 0
    /\ emitted = EmptyBag
    /\ ops = 0
    /\ res = NoRes

\* ------------------------------------------------------- POST /report
\* lines 58-79: parse and validate, then issue the two-hour query
Receive(r, type, description, lat, lng) ==
    /\ req[r].pc = "idle"
    /\ \A q \in Reqs : q < r => req[q].pc # "idle"
    /\ IF \/ type = "" \/ description = ""
          \/ lat \in {0, undefined} \/ lng \in {0, undefined}
          \/ type \notin validTypes
       THEN req' = [req EXCEPT ![r] = Done(@, "error400", 0)]
       ELSE req' = [req EXCEPT ![r] = [@ EXCEPT !.pc = "find_existing",
                        !.type = type, !.description = description,
                        !.lat = lat, !.lng = lng]]
    /\ UNCHANGED <<store, now, emitted, ops, res>>

\* ai.js lines 96-117: the synchronous head of detectDuplicates, run on the
\* result of Incident.find({ timestamp: { $gte: twoHoursAgo } }).lean()
nearbyIncidents(s, lat, lng, t) ==
    SeqFilterNear(s, FindSince(s, 1, t - LooseMinutes, ""), lat, lng,
                  t - LooseMinutes, LooseRadius)

\* lines 81-91: the two-hour query answers; detectDuplicates filters the
\* result and either returns [] at once or calls the oracle
FindExisting(r) ==
    /\ req[r].pc = "find_existing"
    /\ LET near == nearbyIncidents(store, req[r].lat, req[r].lng, now)
       IN  IF Len(near) = 0
           THEN req' = [req EXCEPT ![r] = [@ EXCEPT !.pc = "find_recent",
                            !.nearby = near, !.duplicates = <<>>]]
           ELSE req' = [req EXCEPT ![r] = [@ EXCEPT !.pc = "oracle",
                            !.nearby = near, !.oracle = "called"]]
    /\ UNCHANGED <<store, now, emitted, ops, res>>

\* What the oracle may answer: a rejected call, a text without a JSON
\* array, or a JSON array of judgments {index, confidence}
Judgments     == [index : 1 .. 2, confidence : {90}]
OracleReplies ==
    {[kind |-> "error", list |-> <<>>], [kind |-> "text", list |-> <<>>]}
    \cup {[kind |-> "json", list |-> l] :
             l \in UNION {[1 .. n -> Judgments] : n \in 0 .. MaxJudg}}

\* ai.js lines 142-166: parse the answer, map the judgments back to
\* incident ids and drop those without one; any failure yields []
detectDuplicates(near, reply) ==
    IF reply.kind = "json"
    THEN LET mapped == [k \in 1 .. Len(reply.list) |->
                 [incidentId |-> IF reply.list[k].index \in 1 .. Len(near)
                                 THEN near[reply.list[k].index] ELSE 0,
                  confidence |-> reply.list[k].confidence]]
         IN  SelectSeq(mapped, LAMBDA d : d.incidentId # 0)
    ELSE <<>>

\* Variant: detectDuplicates without its try/catch, a rejected call reaches
\* the handler's catch
OracleReply_nocatch(r, reply) ==
    /\ req[r].pc = "oracle"
    /\ req' = [req EXCEPT ![r] =
                 IF reply.kind = "error"
                 THEN Done([@ EXCEPT !.oracle = reply.kind], "error500", 0)
                 ELSE [@ EXCEPT !.pc = "find_recent", !.oracle = reply.kind,
                          !.duplicates = detectDuplicates(req[r].nearby, reply)]]
    /\ UNCHANGED <<store, now, emitted, ops, res>>

\* line 88 resumes: the oracle has answered (it need not ever do so)
OracleReply(r, reply) ==
    /\ req[r].pc = "oracle"
    /\ req' = [req EXCEPT ![r] = [@ EXCEPT !.pc = "find_recent",
                    !.oracle = reply.kind,
                    !.duplicates = detectDuplicates(req[r].nearby, reply)]]
    /\ UNCHANGED <<store, now, emitted, ops, res>>

\* Variant: the loop tests distance < 100
RECURSIVE FirstMatch_lt(_, _, _, _, _)
FirstMatch_lt(s, recent, k, lat, lng) ==
    IF k > Len(recent) THEN 0
    ELSE IF LET distance == calculateDistance(lat, lng, s[recent[k]].lat,
                                              s[recent[k]].lng)
            IN  distance # NaN /\ distance < TightRadius
         THEN recent[k]
         ELSE FirstMatch_lt(s, recent, k + 1, lat, lng)

\* lines 100-113: the first recent incident within 100 m, 0 if there is none
RECURSIVE FirstMatch(_, _, _, _, _)
FirstMatch(s, recent, k, lat, lng) ==
    IF k > Len(recent) THEN 0
    ELSE IF LessOrEqual(calculateDistance(lat, lng, s[recent[k]].lat,
                                          s[recent[k]].lng), TightRadius)
         THEN recent[k]
         ELSE FirstMatch(s, recent, k + 1, lat, lng)

\* Variant: the thirty-minute query carries no type filter
matchedIncident_anytype(s, type, lat, lng, t) ==
    FirstMatch(s, FindSince(s, 1, t - TightMinutes, ""), 1, lat, lng)

matchedIncident(s, type, lat, lng, t) ==
    FirstMatch(s, FindSince(s, 1, t - TightMinutes, type), 1, lat, lng)

\* lines 93-117 and 137: the thirty-minute query answers and the loop runs;
\* on a match the local document gets upvotes += 1 and save() is issued,
\* otherwise analyzeIncident is called
TightQuery(r) ==
    /\ req[r].pc = "find_recent"
    /\ LET m == matchedIncident(store, req[r].type, req[r].lat, req[r].lng, now)
       IN  IF m # 0
           THEN req' = [req EXCEPT ![r] = [@ EXCEPT !.pc = "save_merge",
                            !.matched = m,
                            !.doc = [store[m] EXCEPT !.upvotes = @ + 1]]]
           ELSE req' = [req EXCEPT ![r] = [@ EXCEPT !.pc = "analyze"]]
    /\ UNCHANGED <<store, now, emitted, ops, res>>

\* Variant: the save writes the whole loaded document back
SaveMerged_whole(s, m, doc) == [s EXCEPT ![m] = doc]

\* matchedIncident.save(): Mongoose writes the modified path only,
\* { $set: { upvotes: <local value> } }
SaveMerged(s, m, doc) == [s EXCEPT ![m].upvotes = doc.upvotes]

\* lines 118-133: the save is applied, upvote_update is emitted, 200 merged
MergeSave(r) ==
    /\ req[r].pc = "save_merge"
    /\ store' = SaveMerged(store, req[r].matched, req[r].doc)
    /\ emitted' = Emit({[event |-> "upvote_update",
                          incidentId |-> req[r].matched, req |-> r]})
    /\ req' = [req EXCEPT ![r] = Done(@, "merged", req[r].matched)]
    /\ UNCHANGED <<now, ops, res>>

\* lines 137-158: analyzeIncident answers (a failure yields Medium) and the
\* new document is built with timestamp new Date()
AnalyzeReply(r, severity) ==
    /\ req[r].pc = "analyze"
    /\ req' = [req EXCEPT ![r] = [@ EXCEPT !.pc = "save_new",
                    !.doc = NewIncident(req[r].type, req[r].description,
                                        req[r].lat, req[r].lng, severity, now)]]
    /\ UNCHANGED <<store, now, emitted, ops, res>>

\* The categories a stored incident may have: the enum of the schema's
\* type path
SchemaTypes == {"Fire", "Accident", "Medical", "Crime", "Infrastructure"}

\* lines 160-182: save() validates the document against the schema; a
\* valid one is inserted, both events are emitted, 201 created; an invalid
\* one makes save() reject before anything is written, and the catch
\* answers 500
CreateSave(r) ==
    /\ req[r].pc = "save_new"
    /\ IF req[r].doc.type \in SchemaTypes
       THEN /\ store' = Append(store, req[r].doc)
            /\ emitted' = Emit({[event |-> e, incidentId |-> Len(store) + 1,
                                 req |-> r] :
                                    e \in {"new_incident", "new_incident_alert"}})
            /\ req' = [req EXCEPT ![r] = Done(@, "created", Len(store) + 1)]
       ELSE /\ req' = [req EXCEPT ![r] =
                         Done([@ EXCEPT !.failedAt = "validate"], "error500", 0)]
            /\ UNCHANGED <<store, emitted>>
    /\ UNCHANGED <<now, ops, res>>

StorePcs == {"find_existing", "find_recent", "save_merge", "save_new"}

\* Variant: a rejected thirty-minute query falls back to creating
StoreFails_fallback(r) ==
    /\ req[r].pc \in StorePcs
    /\ req' = [req EXCEPT ![r] =
                 IF req[r].pc = "find_recent"
                 THEN [@ EXCEPT !.pc = "analyze", !.failedAt = req[r].pc]
                 ELSE Done([@ EXCEPT !.failedAt = req[r].pc], "error500", 0)]
    /\ UNCHANGED <<store, now, emitted, ops, res>>

\* Variant: the events are emitted before the save is awaited, so a
\* rejected save has already been announced
StoreFails_emitfirst(r) ==
    /\ req[r].pc \in StorePcs
    /\ emitted' =
          IF req[r].pc = "save_merge"
          THEN Emit({[event |-> "upvote_update",
                      incidentId |-> req[r].matched, req |-> r]})
          ELSE IF req[r].pc = "save_new"
          THEN Emit({[event |-> e, incidentId |-> Len(store) + 1, req |-> r] :
                        e \in {"new_incident", "new_incident_alert"}})
          ELSE emitted
    /\ req' = [req EXCEPT ![r] = Done([@ EXCEPT !.failedAt = req[r].pc], "error500", 0)]
    /\ UNCHANGED <<store, now, ops, res>>

\* lines 184-190: a store query or write rejects; the catch answers 500
StoreFails(r) ==
    /\ req[r].pc \in StorePcs
    /\ req' = [req EXCEPT ![r] = Done([@ EXCEPT !.failedAt = req[r].pc], "error500", 0)]
    /\ UNCHANGED <<store, now, emitted, ops, res>>

\* ------------------------------------------------ PATCH and re-analyze
\* PATCH /:id/upvote: findByIdAndUpdate(id, { $inc: { upvotes: 1 } })
Upvote(i) ==
    /\ ops < MaxOps
    /\ i \in Ids
    /\ store' = [store EXCEPT ![i].upvotes = @ + 1]
    /\ emitted' = Emit({[event |-> "upvote_update", incidentId |-> i, req |-> 0]})
    /\ ops' = ops + 1
    /\ UNCHANGED <<req, now, res>>

\* PATCH /:id/verify: findByIdAndUpdate(id, { verified: true, status: 'Verified' })
Verify(i) ==
    /\ ops < MaxOps
    /\ i \in Ids
    /\ store' = [store EXCEPT ![i].verified = TRUE, ![i].status = "Verified"]
    /\ emitted' = Emit({[event |-> "incident_verified", incidentId |-> i, req |-> 0]})
    /\ ops' = ops + 1
    /\ UNCHANGED <<req, now, res>>

\* PATCH /:id/status: findByIdAndUpdate(id, { status })
UpdateStatus(i, status) ==
    /\ ops < MaxOps
    /\ i \in Ids
    /\ status \in validStatuses
    /\ store' = [store EXCEPT ![i].status = status]
    /\ emitted' = Emit({[event |-> "incident_updated", incidentId |-> i, req |-> 0]})
    /\ ops' = ops + 1
    /\ UNCHANGED <<req, now, res>>

\* POST /:id/analyze: the loaded document gets ai_analysis and severity and
\* is saved; the save writes those two paths only
ReAnalyze(i, severity) ==
    /\ ops < MaxOps
    /\ i \in Ids
    /\ store' = [store EXCEPT ![i].severity = severity]
    /\ ops' = ops + 1
    /\ UNCHANGED <<req, now, emitted, res>>

Tick ==
    /\ now + TickStep <= MaxTime
    /\ now' = now + TickStep
    /\ UNCHANGED <<store, req, emitted, ops, res>>

Next ==
    \/ \E r \in Reqs, b \in Reports :
          Receive(r, b.type, b.description, b.lat, b.lng)
    \/ \E r \in Reqs : FindExisting(r)
    \/ \E r \in Reqs, reply \in OracleReplies : OracleReply(r, reply)
    \/ \E r \in Reqs : TightQuery(r)
    \/ \E r \in Reqs : MergeSave(r)
    \/ \E r \in Reqs, sev \in AiSeverities : AnalyzeReply(r, sev)
    \/ \E r \in Reqs : CreateSave(r)
    \/ \E r \in Reqs : StoreFails(r)
    \/ \E i \in Ids : Upvote(i)
    \/ \E i \in Ids : Verify(i)
    \/ \E i \in Ids, st \in StatusInputs : UpdateStatus(i, st)
    \/ \E i \in Ids, sev \in AiSeverities : ReAnalyze(i, sev)
    \/ Tick

Spec == Init /\ [][Next]_vars

\* One handler at a time: a request or an operation starts only when no
\* report is being processed (the setting of a single-request test)
Quiet == \A r \in Reqs : req[r].pc \in {"idle", "done"}

NextSerial ==
    \/ \E r \in Reqs, b \in Reports :
          Quiet /\ Receive(r, b.type, b.description, b.lat, b.lng)
    \/ \E r \in Reqs : FindExisting(r)
    \/ \E r \in Reqs, reply \in OracleReplies : OracleReply(r, reply)
    \/ \E r \in Reqs : TightQuery(r)
    \/ \E r \in Reqs : MergeSave(r)
    \/ \E r \in Reqs, sev \in AiSeverities : AnalyzeReply(r, sev)
    \/ \E r \in Reqs : CreateSave(r)
    \/ \E r \in Reqs : StoreFails(r)
    \/ \E i \in Ids : Quiet /\ Upvote(i)
    \/ \E i \in Ids : Quiet /\ Verify(i)
    \/ \E i \in Ids, st \in StatusInputs : Quiet /\ UpdateStatus(i, st)
    \/ \E i \in Ids, sev \in AiSeverities : Quiet /\ ReAnalyze(i, sev)
    \/ Tick

SpecSerial == Init /\ [][NextSerial]_vars

\* The event loop runs every continuation and the store answers every
\* query and write (or rejects it); nothing makes the oracle answer.
NextLive ==
    \/ \E r \in Reqs, b \in Reports :
          Receive(r, b.type, b.description, b.lat, b.lng)
    \/ \E r \in Reqs : FindExisting(r)
    \/ \E r \in Reqs, reply \in OracleReplies : OracleReply(r, reply)
    \/ \E r \in Reqs : TightQuery(r)
    \/ \E r \in Reqs : MergeSave(r)
    \/ \E r \in Reqs, sev \in AiSeverities : AnalyzeReply(r, sev)
    \/ \E r \in Reqs : CreateSave(r)
    \/ \E r \in Reqs : StoreFails(r)
    \/ Tick

SpecLive ==
    /\ Init /\ [][NextLive]_vars
    /\ \A r \in Reqs :
          /\ WF_vars(FindExisting(r))
          /\ WF_vars(TightQuery(r))
          /\ WF_vars(MergeSave(r))
          /\ WF_vars(\E sev \in AiSeverities : AnalyzeReply(r, sev))
          /\ WF_vars(CreateSave(r))

\* --------------------------------------------- reports with any coordinates
\* d degrees of arc in metres: R * d * pi / 180 with R = 6371e3
Degrees(d) == d * (((6371000 \div 180) * 355) \div 113)

\* The request bodies of Reports and a report from latitude 91 degrees
RangeReports == Reports \cup {Report("Fire", "smoke", Degrees(91), Lng0)}

NextRange ==
    \/ \E r \in Reqs, b \in RangeReports :
          Receive(r, b.type, b.description, b.lat, b.lng)
    \/ \E r \in Reqs : FindExisting(r)
    \/ \E r \in Reqs, reply \in OracleReplies : OracleReply(r, reply)
    \/ \E r \in Reqs : TightQuery(r)
    \/ \E r \in Reqs : MergeSave(r)
    \/ \E r \in Reqs, sev \in AiSeverities : AnalyzeReply(r, sev)
    \/ \E r \in Reqs : CreateSave(r)
    \/ \E r \in Reqs : StoreFails(r)
    \/ Tick

SpecRange == Init /\ [][NextRange]_vars

\* ------------------------------------------------- broadcasts that fail
\* io.emit hands the event to the transport and returns; an event that the
\* transport loses reaches no client and nothing tells the handler
BroadcastFails(e) ==
    /\ CopiesIn(e, emitted) > 0
    /\ emitted' = emitted (-) SetToBag({e})
    /\ UNCHANGED <<store, req, now, ops, res>>

NextNotify ==
    \/ \E r \in Reqs, b \in Reports :
          Receive(r, b.type, b.description, b.lat, b.lng)
    \/ \E r \in Reqs : FindExisting(r)
    \/ \E r \in Reqs, reply \in OracleReplies : OracleReply(r, reply)
    \/ \E r \in Reqs : TightQuery(r)
    \/ \E r \in Reqs : MergeSave(r)
    \/ \E r \in Reqs, sev \in AiSeverities : AnalyzeReply(r, sev)
    \/ \E r \in Reqs : CreateSave(r)
    \/ \E r \in Reqs : StoreFails(r)
    \/ \E e \in BagToSet(emitted) : BroadcastFails(e)
    \/ Tick

SpecNotify == Init /\ [][NextNotify]_vars

\* ------------------------------------------------------ priority scoring
Min(a, b) == IF a < b THEN a ELSE b
Max(a, b) == IF a > b THEN a ELSE b

\* Variant: the severity table of the README (Low: 20)
severityScores_readme(severity) ==
    CASE severity = "Critical" -> 100
      [] severity = "High"     -> 70
      [] severity = "Medium"   -> 40
      [] severity = "Low"      -> 20
      [] OTHER                 -> 40

\* priorityScorer.js lines 16-22: severityScores[incident.severity] || 40
severityScores(severity) ==
    CASE severity = "Critical" -> 100
      [] severity = "High"     -> 70
      [] severity = "Medium"   -> 40
      [] severity = "Low"      -> 10
      [] OTHER                 -> 40

\* lines 24-28: ageInMinutes = (Date.now() - timestamp) / 60000 and
\* Math.max(0, 30 - Math.floor(ageInMinutes / 10) * 5); \div rounds down,
\* as Math.floor does, also below zero
timeScore(timestamp, t) == Max(0, 30 - ((t - timestamp) \div 10) * 5)

\* lines 32-33
upvoteScore(upvotes) == Min(upvotes * 2, 20)

\* lines 36-47: Math.min(distanceInKm * 2, 30), in thousandths of a point
\* (distance is in metres); nothing without a responder location
NoResponder == [given |-> FALSE, lat |-> 0, lng |-> 0]
Responder(lat, lng) == [given |-> TRUE, lat |-> lat, lng |-> lng]
distancePenalty(incident, responderLocation) ==
    IF responderLocation.given
    THEN Min(calculateDistance(responderLocation.lat, responderLocation.lng,
                               incident.lat, incident.lng) * 2, 30000)
    ELSE 0

\* lines 62-69: typeBonus[incident.type] || 0
typeBonus(type) ==
    CASE type \in {"Medical", "Fire"}    -> 10
      [] type \in {"Crime", "Accident"}  -> 5
      [] OTHER                           -> 0

\* lines 13-70: the score before rounding, in thousandths of a point
rawScore(incident, responderLocation, t) ==
    1000 * ( severityScores(incident.severity)
           + timeScore(incident.timestamp, t)
           + upvoteScore(incident.upvotes)
           + (IF incident.verified THEN 15 ELSE 0)
           - (IF incident.status = "In Progress" THEN 20
              ELSE IF incident.status = "Resolved" THEN 50 ELSE 0)
           + typeBonus(incident.type) )
    - distancePenalty(incident, responderLocation)

\* Math.round of x thousandths: the nearest integer, a half goes up
MathRound(x) == (x + 500) \div 1000

\* Variant: the score is rounded and returned as it is
calculatePriority_noclamp(incident, responderLocation, t) ==
    MathRound(rawScore(incident, responderLocation, t))

\* line 73: Math.max(0, Math.min(200, Math.round(score)))
calculatePriority(incident, responderLocation, t) ==
    Max(0, Min(200, MathRound(rawScore(incident, responderLocation, t))))

\* lines 114-119
getPriorityLevel(score) ==
    IF score >= 120 THEN "CRITICAL"
    ELSE IF score >= 90 THEN "HIGH"
    ELSE IF score >= 60 THEN "MEDIUM"
    ELSE "LOW"

\* Array.prototype.sort with (a, b) => b.priority - a.priority: a stable
\* sort, here by insertion from the right
RECURSIVE InsertDesc(_, _)
InsertDesc(x, sorted) ==
    IF sorted = <<>> \/ x.priority >= Head(sorted).priority
    THEN <<x>> \o sorted
    ELSE <<Head(sorted)>> \o InsertDesc(x, Tail(sorted))

RECURSIVE SortDesc(_)
SortDesc(items) ==
    IF items = <<>> THEN <<>>
    ELSE InsertDesc(Head(items), SortDesc(Tail(items)))

\* Variant: the comparator is (a, b) => a.priority - b.priority
RECURSIVE InsertAsc(_, _)
InsertAsc(x, sorted) ==
    IF sorted = <<>> \/ x.priority <= Head(sorted).priority
    THEN <<x>> \o sorted
    ELSE <<Head(sorted)>> \o InsertAsc(x, Tail(sorted))

RECURSIVE SortAsc(_)
SortAsc(items) ==
    IF items = <<>> THEN <<>>
    ELSE InsertAsc(Head(items), SortAsc(Tail(items)))

WithPriority(s, ids, responderLocation, t) ==
    [k \in 1 .. Len(ids) |->
        [id |-> ids[k], doc |-> s[ids[k]],
         priority |-> calculatePriority(s[ids[k]], responderLocation, t)]]

sortIncidentsByPriority_asc(s, ids, responderLocation, t) ==
    SortAsc(WithPriority(s, ids, responderLocation, t))

\* lines 100-107: every incident gets its priority, then the sort
sortIncidentsByPriority(s, ids, responderLocation, t) ==
    SortDesc(WithPriority(s, ids, responderLocation, t))

\* Variant: only Resolved is excluded
FindActive_resolved(s) ==
    SelectSeq([i \in 1 .. Len(s) |-> i], LAMBDA i : s[i].status # "Resolved")

\* incidents.js lines 329-331:
\* Incident.find({ status: { $nin: ['Resolved', 'Closed'] } }).lean()
FindActive(s) ==
    SelectSeq([i \in 1 .. Len(s) |-> i],
              LAMBDA i : s[i].status \notin {"Resolved", "Closed"})

Slice(items, k) == SubSeq(items, 1, Min(k, Len(items)))

WithLevel(items) ==
    [k \in 1 .. Len(items) |->
        [id |-> items[k].id, doc |-> items[k].doc, priority |-> items[k].priority,
         priorityLevel |-> getPriorityLevel(items[k].priority)]]

\* Variant: the list is cut to the limit before it is sorted
sortedIncidents_slicefirst(s, responderLocation, limit, t) ==
    WithLevel(SortDesc(Slice(WithPriority(s, FindActive(s), responderLocation, t),
                             limit)))

\* incidents.js lines 333-339: sort, slice(0, parseInt(limit)), add the label
sortedIncidents(s, responderLocation, limit, t) ==
    WithLevel(Slice(sortIncidentsByPriority(s, FindActive(s), responderLocation, t),
                    limit))

DefaultLimit == 20     \* const { lat, lng, limit = 20 } = req.query

\* GET /priority-queue
PriorityQueue(responderLocation, limit) ==
    /\ res' = [pc |-> "queue", responderLocation |-> responderLocation,
               limit |-> limit,
               incidents |-> sortedIncidents(store, responderLocation, limit, now)]
    /\ UNCHANGED <<store, req, now, emitted, ops>>

\* GET /:id of a stored incident: its priority without a responder location
GetIncident(i) ==
    /\ i \in Ids
    /\ res' = [pc |-> "incident", id |-> i,
               priority |-> calculatePriority(store[i], NoResponder, now),
               priorityLevel |->
                   getPriorityLevel(calculatePriority(store[i], NoResponder, now))]
    /\ UNCHANGED <<store, req, now, emitted, ops>>

\* The incidents scored: every combination of the fields the score reads
Scored(severity, timestamp, upvotes, verified, status, type) ==
    [type |-> type, description |-> "smoke", lat |-> 1000, lng |-> Lng0,
     severity |-> severity, status |-> status, verified |-> verified,
     upvotes |-> upvotes, timestamp |-> timestamp]
ScoredIncidents ==
    {Scored(sv, ts, up, vf, st, ty) :
        sv \in {"Critical", "High", "Medium", "Low", "5"},
        ts \in {70, 5, 0, 0 - 9, 0 - 10, 0 - 25, 0 - 59, 0 - 60, 0 - 125},
        up \in {1, 3, 10, 12},
        vf \in BOOLEAN,
        st \in {"Reported", "In Progress", "Resolved"},
        ty \in {"Medical", "Crime", "Infrastructure", "fire"}}

\* The incidents queued: few enough to be combined in stores of up to three
QueuedIncidents ==
    {Scored("High", 0 - 10, 1, FALSE, "Reported", "Fire"),
     [Scored("High", 0 - 10, 1, FALSE, "Reported", "Fire") EXCEPT !.lat = 8000],
     Scored("Low", 0 - 60, 1, FALSE, "Verified", "Crime"),
     Scored("Critical", 0 - 25, 3, TRUE, "In Progress", "Medical"),
     Scored("Critical", 0, 12, TRUE, "Resolved", "Medical"),
     Scored("Medium", 0 - 10, 1, FALSE, "Closed", "Accident")}

MaxQueue == 3
QueueStores ==
    {<<inc>> : inc \in ScoredIncidents}
    \cup UNION {[1 .. n -> QueuedIncidents] : n \in 0 .. MaxQueue}

\* Where a responder may be: at the incidents, 250 m, 7 km and 20 km away
ResponderLocations ==
    {NoResponder} \cup {Responder(lat, Lng0) : lat \in {1000, 1250, 8000, 21000}}
QueueLimits == {0, 1, 2, DefaultLimit}

InitQueue ==
    /\ store \in QueueStores
    /\ req = [r \in Reqs |-> IdleReq]
    /\ now = 0
    /\ emitted = EmptyBag
    /\ ops = 0
    /\ res = NoRes

NextQueue ==
    \/ \E rl \in ResponderLocations, k \in QueueLimits : PriorityQueue(rl, k)
    \/ \E i \in Ids : GetIncident(i)

SpecQueue == InitQueue /\ [][NextQueue]_vars

\* ------------------------------------------------ GET /check-duplicates
\* Variant: the score is distance / 5, it grows with the distance
distanceScore_grows(distance) == Max(0, 6 * distance)

\* part_000 lines 421-422: Math.max(0, 100 - (distance / 5)), in
\* thirtieths of a point (distance in metres)
distanceScore(distance) ==
    IF distance = NaN THEN NaN ELSE Max(0, 30 * 100 - 6 * distance)

\* lines 424-426: Math.max(0, 100 - (timeDiff / (2 * 60 * 60 * 10))) with
\* timeDiff in ms, in thirtieths of a point: a minute is 60000 / 72000 of a
\* point (elapsed in minutes)
elapsedScore(elapsed) == Max(0, 30 * 100 - 25 * elapsed)

\* line 429: incident.type === type ? 20 : 0, in thirtieths of a point
typeMatchBonus(incidentType, type) == IF incidentType = type THEN 30 * 20 ELSE 0

\* Variant: the sum is divided by 2
confidence_half(distance, elapsed, incidentType, type) ==
    Min(100, (distanceScore(distance) + elapsedScore(elapsed)
                + typeMatchBonus(incidentType, type) + 30) \div 60)

\* Variant: a distance score that is NaN counts as 0
confidence_nanzero(distance, elapsed, incidentType, type) ==
    Min(100, (2 * ((IF distanceScore(distance) = NaN THEN 0
                    ELSE distanceScore(distance)) + elapsedScore(elapsed)
                     + typeMatchBonus(incidentType, type)) + 66) \div 132)

\* lines 432 and 443: Math.min(100, Math.round((distanceScore + timeScore
\* + typeBonus) / 2.2)); x thirtieths divided by 2.2 are x / 66, and
\* Math.round(x / 66) is the integer part of (2 x + 66) / 132.  With a
\* distance score of NaN the sum, its rounding and the minimum are NaN.
confidence(distance, elapsed, incidentType, type) ==
    IF distanceScore(distance) = NaN THEN NaN
    ELSE Min(100, (2 * (distanceScore(distance) + elapsedScore(elapsed)
                          + typeMatchBonus(incidentType, type)) + 66) \div 132)

\* location.coordinates, [lng, lat]: the handler writes it together with
\* location.lat and location.lng (incidents.js 143-147); a record written
\* without the two has a field of its own for it
coordinates(doc) ==
    IF "coordinates" \in DOMAIN doc THEN doc.coordinates ELSE <<doc.lng, doc.lat>>

\* lines 395-408: the $nearSphere query on location.coordinates: active
\* incidents of the last two hours within 500 m, the nearest first
RECURSIVE InsertNear(_, _)
InsertNear(x, sorted) ==
    IF sorted = <<>> \/ x.distance <= Head(sorted).distance
    THEN <<x>> \o sorted
    ELSE <<Head(sorted)>> \o InsertNear(x, Tail(sorted))

RECURSIVE SortNear(_)
SortNear(items) ==
    IF items = <<>> THEN <<>>
    ELSE InsertNear(Head(items), SortNear(Tail(items)))

nearSphere(s, lat, lng, t) ==
    LET hits == SelectSeq([i \in 1 .. Len(s) |->
                              [id |-> i,
                               distance |-> calculateDistance(lat, lng,
                                                coordinates(s[i])[2],
                                                coordinates(s[i])[1])]],
                   LAMBDA h : /\ s[h.id].timestamp >= t - LooseMinutes
                              /\ s[h.id].status \notin {"Resolved", "Closed"}
                              /\ h.distance <= LooseRadius)
        near == SortNear(hits)
    IN  [k \in 1 .. Len(near) |-> near[k].id]

\* .sort((a, b) => b.confidence - a.confidence), a stable sort
RECURSIVE InsertConfident(_, _)
InsertConfident(x, sorted) ==
    IF sorted = <<>> \/ x.confidence >= Head(sorted).confidence
    THEN <<x>> \o sorted
    ELSE <<Head(sorted)>> \o InsertConfident(x, Tail(sorted))

RECURSIVE SortConfident(_)
SortConfident(items) ==
    IF items = <<>> THEN <<>>
    ELSE InsertConfident(Head(items), SortConfident(Tail(items)))

\* lines 417-446: every nearby incident with its confidence and distance
scoredNearby(s, ids, type, lat, lng, t) ==
    [k \in 1 .. Len(ids) |->
        [id |-> ids[k],
         distance |-> calculateDistance(lat, lng, s[ids[k]].lat, s[ids[k]].lng),
         elapsed |-> t - s[ids[k]].timestamp,
         confidence |-> confidence(
             calculateDistance(lat, lng, s[ids[k]].lat, s[ids[k]].lng),
             t - s[ids[k]].timestamp, s[ids[k]].type, type)]]

\* Variant: the filter keeps confidence >= 40
heuristicDuplicates_ge(scored) ==
    SortConfident(SelectSeq(scored, LAMBDA d :
                                d.confidence # NaN /\ d.confidence >= 40))

\* lines 447-448: .filter(d => d.confidence > 40).sort(...)
heuristicDuplicates(scored) ==
    SortConfident(SelectSeq(scored, LAMBDA d : GreaterThan(d.confidence, 40)))

\* Variant: the second sort is left out
fusedDuplicates_nosort(duplicates, aiDuplicates) ==
    [k \in 1 .. Len(duplicates) |->
        LET ai == SelectSeq(aiDuplicates,
                            LAMBDA a : a.incidentId = duplicates[k].id)
        IN  IF ai = <<>> THEN duplicates[k]
            ELSE [duplicates[k] EXCEPT
                     !.confidence = (@ + ai[1].confidence + 1) \div 2]]

\* Variant: an entry the oracle does not name is averaged with 0
fusedDuplicates_halved(duplicates, aiDuplicates) ==
    SortConfident(
        [k \in 1 .. Len(duplicates) |->
            LET ai == SelectSeq(aiDuplicates,
                                LAMBDA a : a.incidentId = duplicates[k].id)
            IN  [duplicates[k] EXCEPT
                    !.confidence = IF ai = <<>> THEN (@ + 1) \div 2
                                   ELSE (@ + ai[1].confidence + 1) \div 2]])

\* lines 458-466: the oracle's confidence is averaged into the entries it
\* names, Math.round((dup.confidence + aiMatch.confidence) / 2), and the
\* list is sorted again
fusedDuplicates(duplicates, aiDuplicates) ==
    SortConfident(
        [k \in 1 .. Len(duplicates) |->
            LET ai == SelectSeq(aiDuplicates,
                                LAMBDA a : a.incidentId = duplicates[k].id)
            IN  IF ai = <<>> THEN duplicates[k]
                ELSE [duplicates[k] EXCEPT
                         !.confidence = (@ + ai[1].confidence + 1) \div 2]])

\* lines 377-455: validation, the geo query, the heuristic list; with a
\* description and a non-empty list the oracle is asked, otherwise the
\* list is the response
CheckDuplicates(type, lat, lng, description) ==
    /\ res.pc = "none"
    /\ IF type = "" \/ lat = 0 \/ lng = 0
       THEN res' = [pc |-> "error400"]
       ELSE LET near       == nearSphere(store, lat, lng, now)
                scored     == scoredNearby(store, near, type, lat, lng, now)
                duplicates == heuristicDuplicates(scored)
            IN  res' = [pc |-> IF description # "" /\ duplicates # <<>>
                               THEN "dup_oracle" ELSE "duplicates",
                        type |-> type, lat |-> lat, lng |-> lng,
                        description |-> description, nearby |-> near,
                        scored |-> scored, oracle |-> "none",
                        aiDuplicates |-> <<>>, duplicates |-> duplicates]
    /\ UNCHANGED <<store, req, now, emitted, ops>>

\* lines 451-476: detectDuplicates answers (it filters the nearby list
\* again, by the clock of that moment) and the fused list is the response
DupOracleReply(reply) ==
    /\ res.pc = "dup_oracle"
    /\ LET near == SeqFilterNear(store, res.nearby, res.lat, res.lng,
                                 now - LooseMinutes, LooseRadius)
       IN  res' = [res EXCEPT !.pc = "duplicates", !.oracle = reply.kind,
                      !.aiDuplicates = detectDuplicates(near, reply),
                      !.duplicates =
                          fusedDuplicates(@, detectDuplicates(near, reply))]
    /\ UNCHANGED <<store, req, now, emitted, ops>>

\* The candidates of a check: a report from lat 1000 finds them 0 m to
\* 505 m away and 0 to 125 minutes old (100 m away and 110 minutes old,
\* of another category, scores exactly 40)
Candidate(type, lat, timestamp, status) ==
    [NewIncident(type, "smoke", lat, Lng0, "Medium", timestamp)
        EXCEPT !.status = status]
Candidates ==
    {Candidate(ty, lat, ts, "Reported") :
        ty \in {"Fire", "Medical"},
        lat \in {1000, 1100, 1400, 1500, 1505},
        ts \in {0, 0 - 12, 0 - 60, 0 - 110, 0 - 120, 0 - 125}}
    \cup {Candidate("Fire", 1000, 0, "Resolved")}

\* What the oracle may answer to a check: as OracleReplies, the judgments
\* with a high or a low confidence (the answer is used as it is parsed)
DupJudgments     == [index : 1 .. 2, confidence : {90, 10}]
DupOracleReplies ==
    {[kind |-> "error", list |-> <<>>], [kind |-> "text", list |-> <<>>]}
    \cup {[kind |-> "json", list |-> l] :
             l \in UNION {[1 .. n -> DupJudgments] : n \in 0 .. MaxJudg}}

MaxNear == 2
CandidateStores == UNION {[1 .. n -> Candidates] : n \in 0 .. MaxNear}

InitDup ==
    /\ store \in CandidateStores
    /\ req = [r \in Reqs |-> IdleReq]
    /\ now = 0
    /\ emitted = EmptyBag
    /\ ops = 0
    /\ res = NoRes

NextDup ==
    \/ \E type \in {"Fire", ""}, description \in {"", "smoke"} :
          CheckDuplicates(type, 1000, Lng0, description)
    \/ \E reply \in DupOracleReplies : DupOracleReply(reply)

SpecDup == InitDup /\ [][NextDup]_vars

\* ------------------------------------- records without lat and lng
\* A record written past the schema (seed.js writes location.coordinates
\* only): a fire of ten minutes ago whose location has no lat and no lng
Damaged ==
    [NewIncident("Fire", "smoke", undefined, undefined, "Medium", 0 - 10)
        EXCEPT !.upvotes = 5]
    @@ [coordinates |-> <<Lng0, 1100>>]

InitDamaged ==
    /\ store \in {<<Damaged>>, <<Damaged, Seed>>, <<Seed, Damaged>>}
    /\ req = [r \in Reqs |-> IdleReq]
    /\ now = 0
    /\ emitted = EmptyBag
    /\ ops = 0
    /\ res = NoRes

\* Reports and duplicate checks over such a store; the store and the
\* oracle answer every call
NextDamaged ==
    \/ \E r \in Reqs, b \in Reports :
          Receive(r, b.type, b.description, b.lat, b.lng)
    \/ \E r \in Reqs : FindExisting(r)
    \/ \E r \in Reqs, reply \in OracleReplies : OracleReply(r, reply)
    \/ \E r \in Reqs : TightQuery(r)
    \/ \E r \in Reqs : MergeSave(r)
    \/ \E r \in Reqs, sev \in AiSeverities : AnalyzeReply(r, sev)
    \/ \E r \in Reqs : CreateSave(r)
    \/ \E description \in {"", "smoke"} :
          CheckDuplicates("Fire", 1100, Lng0, description)
    \/ \E reply \in DupOracleReplies : DupOracleReply(reply)

SpecDamaged == InitDamaged /\ [][NextDamaged]_vars

\* ------------------------------- the handler with the expanded categories
\* part_000 line 74: validTypes "expanded to include all categories"
validTypesExpanded ==
    {"Fire", "Accident", "Medical", "Crime", "Infrastructure", "Natural", "Other"}

\* part_000 lines 58-79: as Receive, with the expanded list
ReceiveExpanded(r, type, description, lat, lng) ==
    /\ req[r].pc = "idle"
    /\ \A q \in Reqs : q < r => req[q].pc # "idle"
    /\ IF \/ type = "" \/ description = ""
          \/ lat \in {0, undefined} \/ lng \in {0, undefined}
          \/ type \notin validTypesExpanded
       THEN req' = [req EXCEPT ![r] = Done(@, "error400", 0)]
       ELSE req' = [req EXCEPT ![r] = [@ EXCEPT !.pc = "find_existing",
                        !.type = type, !.description = description,
                        !.lat = lat, !.lng = lng]]
    /\ UNCHANGED <<store, now, emitted, ops, res>>

\* The request bodies of Reports and a report of a natural disaster
ExpandedReports == Reports \cup {Report("Natural", "smoke", 1100, Lng0)}

\* The store and the oracle answer every call
NextExpanded ==
    \/ \E r \in Reqs, b \in ExpandedReports :
          ReceiveExpanded(r, b.type, b.description, b.lat, b.lng)
    \/ \E r \in Reqs : FindExisting(r)
    \/ \E r \in Reqs, reply \in OracleReplies : OracleReply(r, reply)
    \/ \E r \in Reqs : TightQuery(r)
    \/ \E r \in Reqs : MergeSave(r)
    \/ \E r \in Reqs, sev \in AiSeverities : AnalyzeReply(r, sev)
    \/ \E r \in Reqs : CreateSave(r)
    \/ Tick

SpecExpanded == Init /\ [][NextExpanded]_vars

\* ================================================================ claims
\* Records of category type, stamped within the thirty minutes before t
\* and at most 100 m from (lat, lng)
TightCandidates(s, type, lat, lng, t) ==
    {i \in 1 .. Len(s) :
        /\ s[i].type = type
        /\ s[i].timestamp <= t /\ t - s[i].timestamp <= 30
        /\ calculateDistance(lat, lng, s[i].lat, s[i].lng) <= 100}

\* Request r answers its thirty-minute query in this step
Decides(r) ==
    /\ req[r].pc = "find_recent"
    /\ req'[r].pc # "find_recent"
    /\ req'[r].failedAt = "none"

\* Request r gets its answer in this step, no store operation having failed
Answers(r, from) ==
    /\ req[r].pc = from
    /\ req'[r].pc = "done"
    /\ req'[r].failedAt = "none"

Changed == {i \in Ids : i <= Len(store') /\ store'[i] # store[i]}

C2_TightNoMerge ==
    [][\A r \in Reqs :
        /\ (Decides(r) /\ TightCandidates(store, req[r].type, req[r].lat,
                                          req[r].lng, now) = {})
              => req'[r].pc = "analyze"
        /\ (req[r].pc = "analyze" /\ req'[r].pc # "analyze")
              => req'[r].pc = "save_new"
        /\ Answers(r, "save_new")
              => /\ req'[r].status = "created"
                 /\ Len(store') = Len(store) + 1
                 /\ SubSeq(store', 1, Len(store)) = store
                 /\ req'[r].incident = Len(store')
                 /\ store'[Len(store')].upvotes = 1
                 /\ store'[Len(store')].status = "Reported"
                 /\ store'[Len(store')].verified = FALSE
                 /\ store'[Len(store')].type = req[r].type
                 /\ store'[Len(store')].lat = req[r].lat
                 /\ store'[Len(store')].lng = req[r].lng
    ]_vars

\* a fire report 250 m from the stored fire, or a medical one 100 m from it
C2_Witness ==
    \E r \in Reqs :
        /\ req[r].status = "created"
        /\ req[r].incident = 2
        /\ store[1] = Seed
        /\ store[2].timestamp <= 20

MergedInto(i) ==
    Cardinality({r \in Reqs : req[r].status = "merged" /\ req[r].incident = i})

Upvoted(i) ==
    CopiesIn([event |-> "upvote_update", incidentId |-> i, req |-> 0], emitted)

\* C3: every increment lands: a record's upvotes is 1 plus the number of
\* reports answered `merged` into it plus the number of PATCH upvotes
\* applied to it, under every interleaving.
C3_BothIncrementsLand ==
    \A i \in Ids : store[i].upvotes = 1 + MergedInto(i) + Upvoted(i)

\* C4: the store never holds two distinct records of the same category
\* within 100 m of each other and stamped within 30 minutes of each other.
C4_NoTwoInWindow ==
    \A i, j \in Ids :
        i # j =>
            ~ /\ store[i].type = store[j].type
              /\ calculateDistance(store[i].lat, store[i].lng,
                                   store[j].lat, store[j].lng) <= 100
              /\ Abs(store[i].timestamp - store[j].timestamp) <= 30

\* C5: upvotes starts at 1, never decreases and so is >= 1 in every state.
C5_UpvotesNeverDecrease ==
    /\ [](\A i \in Ids : store[i].upvotes >= 1)
    /\ [][/\ \A i \in Ids : store'[i].upvotes >= store[i].upvotes
          /\ \A i \in 1 .. Len(store') : i \notin Ids => store'[i].upvotes = 1
       ]_vars

\* C6: a merge changes only the upvotes field of the matched record: no
\* step of a request that is not answered `created` changes a stored
\* record other than the upvotes of the record it matched, or the number
\* of records; and the `merged` answer names the matched record.
C6_MergeFrame ==
    [][\A r \in Reqs :
        (req'[r] # req[r] /\ req'[r].status # "created")
          => /\ Len(store') = Len(store)
             /\ \A i \in Ids :
                   \/ store'[i] = store[i]
                   \/ /\ req'[r].status = "merged"
                      /\ i = req[r].matched
                      /\ store'[i] = [store[i] EXCEPT !.upvotes = store'[i].upvotes]
             /\ req'[r].status = "merged" => req'[r].incident = req[r].matched
    ]_vars

\* a report merged into a record that was verified while the merge's save
\* was on its way
C6_Witness ==
    \E r \in Reqs :
        /\ req[r].status = "merged"
        /\ store[req[r].incident].verified
        /\ store[req[r].incident].upvotes = 2
        /\ Upvoted(req[r].incident) = 0

\* C7: the oracle is called only after the tight-tier check found no merge
\* target: a report answered `merged` never called it.
C7_MergedWithoutOracle ==
    \A r \in Reqs : req[r].status = "merged" => req[r].oracle = "none"

\* C8: the merge/create decision does not depend on the oracle: whatever
\* the oracle answers (a list, a text without a list, an error) the request
\* goes on to its tight-tier query with the store untouched; the decision
\* is the first record of the tight window, whatever the oracle said; and
\* a request is answered with an error only when a store operation failed.
C8_DecisionIgnoresOracle ==
    /\ [](\A r \in Reqs : req[r].status = "error500" => req[r].failedAt # "none")
    /\ [][\A r \in Reqs :
            /\ (req[r].pc = "oracle" /\ req'[r] # req[r])
                  => /\ req'[r].pc = "find_recent"
                     /\ store' = store
                     /\ req'[r].type = req[r].type
                     /\ req'[r].lat = req[r].lat /\ req'[r].lng = req[r].lng
            /\ Decides(r)
                  => LET c == TightCandidates(store, req[r].type, req[r].lat,
                                              req[r].lng, now)
                     IN  IF c = {}
                         THEN req'[r].pc = "analyze" /\ req'[r].matched = 0
                         ELSE /\ req'[r].pc = "save_merge"
                              /\ req'[r].matched \in c
                              /\ \A i \in c : req'[r].matched <= i
       ]_vars

\* a report whose oracle call failed, merged all the same
C8_Witness ==
    \E r \in Reqs : req[r].status = "merged" /\ req[r].oracle = "error"

\* C9: every report that waits for the oracle gets its response in the end,
\* also when the oracle never answers.
C9_OracleTimeBounded ==
    \A r \in Reqs : (req[r].pc = "oracle") ~> (req[r].pc = "done")

EventsOf(r) == {e \in BagToSet(emitted) : e.req = r}

\* C10: a request one of whose store operations failed is answered with an
\* error, the failing step changes neither the store nor the broadcasts,
\* no step of the request before it changed the store, and no broadcast
\* was ever emitted for the request.
C10_StoreFailureIsHard ==
    /\ [](\A r \in Reqs :
            req[r].failedAt # "none"
               => /\ req[r].pc = "done"
                  /\ req[r].status = "error500"
                  /\ EventsOf(r) = {})
    /\ [][\A r \in Reqs :
            /\ (req'[r] # req[r] /\ req'[r].failedAt # "none")
                  => store' = store /\ emitted' = emitted
            /\ (req'[r] # req[r] /\ req'[r].status \notin {"merged", "created"})
                  => store' = store /\ emitted' = emitted
       ]_vars

\* the save of a merge was rejected: the record keeps its upvotes
C10_Witness ==
    \E r \in Reqs :
        /\ req[r].failedAt = "save_merge"
        /\ store = <<Seed>>

\* A well-formed report body: category, description and both coordinates
\* present, latitude within +-90 degrees, longitude within +-180 degrees,
\* category one of the five known ones
WellFormed(type, description, lat, lng) ==
    /\ type # "" /\ description # ""
    /\ lat # undefined /\ lng # undefined
    /\ Abs(lat) <= Degrees(90) /\ Abs(lng) <= Degrees(180)
    /\ type \in {"Fire", "Accident", "Medical", "Crime", "Infrastructure"}

\* C11: a report that is not well formed (a field missing, a coordinate
\* missing or out of range, an unknown category) is rejected before any
\* store query, oracle call or broadcast: a request that got past the
\* validation carries a well-formed body, a stored record lies within the
\* coordinate ranges, and the rejecting step changes neither the store nor
\* the broadcasts.
C11_MalformedRejected ==
    /\ [](\A r \in Reqs :
            req[r].pc \notin {"idle", "done"}
               => WellFormed(req[r].type, req[r].description,
                             req[r].lat, req[r].lng))
    /\ [](\A i \in Ids : Abs(store[i].lat) <= Degrees(90))
    /\ [][\A r \in Reqs :
            (req[r].pc = "idle" /\ req'[r].status = "error400")
               => store' = store /\ emitted' = emitted
       ]_vars

\* The events of request r that this step emits
NewEvents(r) ==
    {e \in BagToSet(emitted') :
        e.req = r /\ CopiesIn(e, emitted') > CopiesIn(e, emitted)}

\* This step loses a broadcast
Loses == \E e \in BagToSet(emitted) : CopiesIn(e, emitted') < CopiesIn(e, emitted)

\* C12: a broadcast is emitted only after the store write of its decision
\* succeeded: the step that emits upvote_update for a request has written
\* the request's upvotes to the matched record, the step that emits
\* new_incident / new_incident_alert has appended the request's record, and
\* every event still around names a record that is in the store and a
\* request answered accordingly.  A broadcast that fails undoes nothing:
\* the step that loses it changes neither the store nor any request, and
\* the record of an answered request stays in the store.
C12_BroadcastAfterWrite ==
    /\ [](\A e \in BagToSet(emitted) :
            e.req \in Reqs =>
               /\ req[e.req].pc = "done"
               /\ req[e.req].incident = e.incidentId
               /\ e.incidentId \in Ids
               /\ req[e.req].status =
                     (IF e.event = "upvote_update" THEN "merged" ELSE "created"))
    /\ [][\A r \in Reqs : \A e \in NewEvents(r) :
            IF e.event = "upvote_update"
            THEN /\ req[r].pc = "save_merge"
                 /\ e.incidentId = req[r].matched
                 /\ store'[e.incidentId].upvotes = req[r].doc.upvotes
            ELSE /\ req[r].pc = "save_new"
                 /\ e.incidentId = Len(store')
                 /\ store' = Append(store, req[r].doc)
       ]_vars
    /\ [][Loses => store' = store /\ req' = req]_vars
    /\ [][\A r \in Reqs :
            req[r].status \in {"merged", "created"}
               => /\ req'[r] = req[r]
                  /\ req[r].incident <= Len(store')
                  /\ store'[req[r].incident].timestamp
                        = store[req[r].incident].timestamp
       ]_vars

\* a report was merged, its upvote_update was lost, the increment is stored
C12_Witness ==
    \E r \in Reqs :
        /\ req[r].status = "merged"
        /\ EventsOf(r) = {}
        /\ store[req[r].incident].upvotes = 2

\* Every priority that the response in res carries, with the incident, the
\* responder location and the time it was computed for
Priorities ==
    IF res.pc = "incident"
    THEN {[doc |-> store[res.id], responderLocation |-> NoResponder,
           priority |-> res.priority]}
    ELSE IF res.pc = "queue"
    THEN {[doc |-> res.incidents[k].doc, responderLocation |-> res.responderLocation,
           priority |-> res.incidents[k].priority] : k \in 1 .. Len(res.incidents)}
    ELSE {}

\* C13: calculatePriority returns an integer between 0 and 200, for every
\* incident and with or without a responder location.
C13_PriorityInRange ==
    \A x \in Priorities : x.priority \in 0 .. 200

\* a resolved incident of low severity, an hour old or more, scores below
\* zero before the cut and 0 after it
C13_Witness ==
    /\ res.pc = "incident"
    /\ res.priority = 0
    /\ store[res.id].timestamp <= now
    /\ calculatePriority_noclamp(store[res.id], NoResponder, now) < 0

\* The value the formula of the specification gives, before rounding, as
\* the fraction num / 1000: severity base + time decay + upvote boost
\* - distance penalty + verification bonus - status penalty + category bonus
ReferenceScore(doc, responderLocation, t) ==
    LET base  == CASE doc.severity = "Critical" -> 100
                   [] doc.severity = "High"     -> 70
                   [] doc.severity = "Medium"   -> 40
                   [] doc.severity = "Low"      -> 10
                   [] OTHER                     -> 40
        decay == Max(0, 30 - ((t - doc.timestamp) \div 10) * 5)
        boost == Min(2 * doc.upvotes, 20)
        \* min(2 * distanceKm, 30) * 1000, distanceKm = metres / 1000
        far   == IF responderLocation.given
                 THEN Min(2 * Abs(doc.lat - responderLocation.lat), 30 * 1000)
                 ELSE 0
        ver   == IF doc.verified THEN 15 ELSE 0
        stat  == CASE doc.status = "In Progress" -> 20
                   [] doc.status = "Resolved"    -> 50
                   [] OTHER                      -> 0
        cat   == CASE doc.type \in {"Medical", "Fire"}   -> 10
                   [] doc.type \in {"Crime", "Accident"} -> 5
                   [] OTHER                              -> 0
    IN  1000 * (base + decay + boost + ver - stat + cat) - far

\* p is x / 1000 rounded to the nearest integer (a half goes up) and
\* clamped to [0, 200]
RoundedClamped(p, x) ==
    \/ p = 0   /\ 2 * x < 1000
    \/ p = 200 /\ 2 * x >= 399 * 1000
    \/ p \in 0 .. 200 /\ 2 * 1000 * p - 1000 <= 2 * x /\ 2 * x < 2 * 1000 * p + 1000

Ages == 0 - 20 .. 130

\* C15: the time-decay term is a step function with values in
\* {0, 5, ..., 30}: between 0 and 30 for every timestamp, also one later
\* than the time of evaluation; the same for two ages of one 10-minute
\* bucket; and 0 from 60 minutes on.
C15_DecayIsStep ==
    /\ \A i \in Ids :
          /\ timeScore(store[i].timestamp, now) \in {0, 5, 10, 15, 20, 25, 30}
          /\ now - store[i].timestamp >= 60
                => timeScore(store[i].timestamp, now) = 0
    /\ \A a, b \in Ages :
          a \div 10 = b \div 10 => timeScore(now - a, now) = timeScore(now - b, now)

\* C16: the response of GET /priority-queue holds no incident whose status
\* is Resolved or Closed.
C16_QueueIsActive ==
    res.pc = "queue" =>
        \A k \in 1 .. Len(res.incidents) :
            /\ res.incidents[k].doc.status \notin {"Resolved", "Closed"}
            /\ store[res.incidents[k].id].status \notin {"Resolved", "Closed"}

\* the store holds a closed incident and an active one; the queue shows one
C16_Witness ==
    /\ res.pc = "queue"
    /\ \E i \in Ids : store[i].status = "Closed"
    /\ \E i \in Ids : store[i].status = "Resolved"
    /\ Len(res.incidents) = 1

\* C17: the priorities of the sorted list do not increase from one entry
\* to the next, and the priority attached to an entry is calculatePriority
\* of that incident for the responder location of the request.
C17_SortedByPriority ==
    res.pc = "queue" =>
        /\ \A j, k \in 1 .. Len(res.incidents) :
              j < k => res.incidents[j].priority >= res.incidents[k].priority
        /\ \A k \in 1 .. Len(res.incidents) :
              /\ res.incidents[k].doc = store[res.incidents[k].id]
              /\ res.incidents[k].priority =
                    calculatePriority(res.incidents[k].doc, res.responderLocation, now)

\* the sort moved a later incident in front of an earlier one, and the
\* priorities counted a responder's distance
C17_Witness ==
    /\ res.pc = "queue"
    /\ res.responderLocation.given
    /\ Len(res.incidents) = 3
    /\ res.incidents[1].id > res.incidents[2].id
    /\ res.incidents[1].priority > res.incidents[2].priority
    /\ res.incidents[2].priority > res.incidents[3].priority

ActiveIds == {i \in Ids : store[i].status \notin {"Resolved", "Closed"}}
QueuedIds == {res.incidents[k].id : k \in 1 .. Len(res.incidents)}

\* C18: with cap k over n active incidents the queue has exactly min(k, n)
\* entries, all of them distinct active incidents; no active incident left
\* out scores higher than one returned; and incidents of equal score keep
\* the order of retrieval, among the entries and across the cut.
C18_TopK ==
    res.pc = "queue" =>
        /\ Len(res.incidents) = Min(res.limit, Cardinality(ActiveIds))
        /\ QueuedIds \subseteq ActiveIds
        /\ Cardinality(QueuedIds) = Len(res.incidents)
        /\ \A j, k \in 1 .. Len(res.incidents) :
              (j < k /\ res.incidents[j].priority = res.incidents[k].priority)
                 => res.incidents[j].id < res.incidents[k].id
        /\ \A i \in ActiveIds \ QueuedIds : \A k \in 1 .. Len(res.incidents) :
              LET p == calculatePriority(store[i], res.responderLocation, now)
              IN  /\ p <= res.incidents[k].priority
                  /\ p = res.incidents[k].priority => res.incidents[k].id < i

\* three active incidents, a cap of 2: the one cut off ties with the last
\* one returned and came later in the store, and the first one returned
\* was retrieved last of the three
C18_Witness ==
    /\ res.pc = "queue"
    /\ res.limit = 2
    /\ Cardinality(ActiveIds) = 3
    /\ Len(res.incidents) = 2
    /\ res.incidents[1].id = 3
    /\ \E i \in ActiveIds \ QueuedIds :
          calculatePriority(store[i], res.responderLocation, now)
             = res.incidents[2].priority

\* The value of the claim's formula, round((distanceScore + timeScore +
\* typeBonus) / 2.2), for a distance in metres and a time in minutes
\* (elapsedMs = 60000 * elapsed): c is that value iff
\* c - 1/2 <= sum / 2.2 < c + 1/2, with every term multiplied by 330
ReferenceConfidence(c, distance, elapsed, sameType) ==
    LET ds  == Max(0, 30 * 100 - 6 * distance)        \* 30 * distanceScore
        ts  == Max(0, 30 * 100 - 25 * elapsed)        \* 30 * timeScore
        sum == ds + ts + (IF sameType THEN 30 * 20 ELSE 0)
    IN  66 * c - 33 <= sum /\ sum < 66 * c + 33

Scoring == res.pc \in {"dup_oracle", "duplicates"}

C20_EdgeScores ==
    Scoring =>
        \A k \in 1 .. Len(res.scored) :
            LET c == res.scored[k] IN
            /\ c.distance = 0   => distanceScore(c.distance) = 30 * 100
            /\ c.distance = 500 => distanceScore(c.distance) = 30 * 50
            /\ c.elapsed = 0    => elapsedScore(c.elapsed) = 30 * 100
            /\ c.elapsed = 120  => elapsedScore(c.elapsed) = 30 * 50

\* C21: of two candidates scored in one check that agree in elapsed time
\* and in matching the report's category, the farther one has the lower or
\* the same confidence; of two that agree in distance and in matching, the
\* older one has the lower or the same confidence; and a scored candidate
\* would not score more were it 1 to 250 m farther or 1 to 250 minutes
\* older.
C21_Monotone ==
    Scoring =>
        \A j, k \in 1 .. Len(res.scored) :
            LET a == res.scored[j]
                b == res.scored[k]
                same == (store[a.id].type = res.type) = (store[b.id].type = res.type)
            IN  /\ (same /\ a.elapsed = b.elapsed /\ a.distance <= b.distance)
                      => a.confidence >= b.confidence
                /\ (same /\ a.distance = b.distance /\ a.elapsed <= b.elapsed)
                      => a.confidence >= b.confidence
                /\ \A more \in {1, 2, 5, 30, 250} :
                      /\ confidence(a.distance + more, a.elapsed,
                                    store[a.id].type, res.type) <= a.confidence
                      /\ confidence(a.distance, a.elapsed + more,
                                    store[a.id].type, res.type) <= a.confidence

\* two candidates of one age, one farther and scoring less, or of one
\* distance, one older and scoring less
C21_Witness ==
    /\ Scoring
    /\ Len(res.scored) = 2
    /\ store[res.scored[1].id].type = store[res.scored[2].id].type
    /\ \/ /\ res.scored[1].elapsed = res.scored[2].elapsed
          /\ res.scored[1].distance < res.scored[2].distance
          /\ res.scored[1].confidence > res.scored[2].confidence
       \/ /\ res.scored[1].distance = res.scored[2].distance
          /\ res.scored[1].elapsed > res.scored[2].elapsed
          /\ res.scored[1].confidence < res.scored[2].confidence

\* The response holds the heuristic list as it is: the oracle is being
\* asked or was not asked at all
HeuristicStage ==
    \/ res.pc = "dup_oracle"
    \/ res.pc = "duplicates" /\ res.oracle = "none"

ScoredIds(P(_)) == {res.scored[k].id : k \in {j \in 1 .. Len(res.scored) : P(res.scored[j])}}
KeptIds == {res.duplicates[k].id : k \in 1 .. Len(res.duplicates)}

\* C22: the heuristic list holds exactly the scored candidates whose
\* confidence is above 40, each once and with the confidence it was scored
\* with, in descending order of confidence.
C22_FilterAndOrder ==
    HeuristicStage =>
        /\ KeptIds = ScoredIds(LAMBDA c : c.confidence > 40)
        /\ Cardinality(KeptIds) = Len(res.duplicates)
        /\ \A k \in 1 .. Len(res.duplicates) :
              \E j \in 1 .. Len(res.scored) : res.scored[j] = res.duplicates[k]
        /\ \A j, k \in 1 .. Len(res.duplicates) :
              j < k => res.duplicates[j].confidence >= res.duplicates[k].confidence

\* a candidate scoring exactly 40 is dropped, one scoring more is kept
C22_Witness ==
    /\ HeuristicStage
    /\ \E k \in 1 .. Len(res.scored) : res.scored[k].confidence = 40
    /\ Len(res.duplicates) = 1
    /\ res.duplicates[1].confidence > 40

\* The oracle has answered and its judgments are fused in
Fused == res.pc = "duplicates" /\ res.oracle # "none"

\* The heuristic confidence that candidate id was scored with
Heuristic(id) ==
    (CHOOSE c \in {res.scored[k] : k \in 1 .. Len(res.scored)} : c.id = id).confidence

\* The oracle's judgments of candidate id
JudgmentsOf(id) ==
    {res.aiDuplicates[k].confidence :
        k \in {j \in 1 .. Len(res.aiDuplicates) : res.aiDuplicates[j].incidentId = id}}

\* C23: after the fusion the list holds the candidates of the heuristic
\* list; one with heuristic confidence h and an oracle judgment a has the
\* confidence (h + a) / 2 rounded to the nearest integer (a half up), one
\* without a judgment has h; and the list is in descending order of the
\* final confidence.
C23_Fusion ==
    Fused =>
        /\ KeptIds = ScoredIds(LAMBDA c : c.confidence > 40)
        /\ Cardinality(KeptIds) = Len(res.duplicates)
        /\ \A k \in 1 .. Len(res.duplicates) :
              LET d == res.duplicates[k]
                  h == Heuristic(d.id)
              IN  IF JudgmentsOf(d.id) = {}
                  THEN d.confidence = h
                  ELSE \E a \in JudgmentsOf(d.id) :
                          /\ 2 * d.confidence - 1 <= h + a
                          /\ h + a < 2 * d.confidence + 1
        /\ \A j, k \in 1 .. Len(res.duplicates) :
              j < k => res.duplicates[j].confidence >= res.duplicates[k].confidence

\* the oracle judged the second of two candidates only, with 90, and that
\* one is now first; the other kept its heuristic confidence
C23_Witness ==
    /\ Fused
    /\ Len(res.duplicates) = 2
    /\ res.duplicates[1].id = heuristicDuplicates(res.scored)[2].id
    /\ res.duplicates[1].confidence > Heuristic(res.duplicates[1].id)
    /\ JudgmentsOf(res.duplicates[1].id) = {90}
    /\ JudgmentsOf(res.duplicates[2].id) = {}
    /\ res.duplicates[2].confidence = Heuristic(res.duplicates[2].id)

\* C24: when the oracle call fails or its answer cannot be parsed, the
\* list of the response is the heuristic list: the same entries with the
\* same confidences in the same order.
C24_OracleFailureKeepsList ==
    /\ [](res.pc = "duplicates" /\ res.oracle \in {"error", "text"}
             => res.duplicates = heuristicDuplicates(res.scored))
    /\ [][(res.pc = "dup_oracle" /\ res'.pc = "duplicates"
              /\ res'.oracle \in {"error", "text"})
             => res'.duplicates = res.duplicates
       ]_vars

\* the call failed for a check with two entries of different confidence
C24_Witness ==
    /\ res.pc = "duplicates"
    /\ res.oracle = "error"
    /\ Len(res.duplicates) = 2
    /\ res.duplicates[1].confidence > res.duplicates[2].confidence

\* C26: every entry of the list that GET /check-duplicates returns has a
\* confidence above 40, also after the fusion.
C26_FinalAboveForty ==
    res.pc = "duplicates" =>
        \A k \in 1 .. Len(res.duplicates) : res.duplicates[k].confidence > 40

\* The records without coordinate fields, and the intact ones
DamagedIds == {i \in Ids : store[i].lat = undefined \/ store[i].lng = undefined}
IntactIds  == Ids \ DamagedIds

Range(seq) == {seq[k] : k \in 1 .. Len(seq)}

\* The intact records a report of request r has in its loose window (two
\* hours, 500 m) and in its tight window (its category, 30 minutes, 100 m)
IntactLoose(r) ==
    {i \in IntactIds :
        /\ now - store[i].timestamp <= 120
        /\ Abs(store[i].lat - req[r].lat) <= 500}
IntactTight(r) ==
    {i \in IntactIds :
        /\ store[i].type = req[r].type
        /\ now - store[i].timestamp <= 30
        /\ Abs(store[i].lat - req[r].lat) <= 100}

Stage(status) ==
    CASE status \in {"Reported", "Pending"} -> 0
      [] status = "Verified"                -> 1
      [] status = "In Progress"             -> 2
      [] status = "Dispatched"              -> 3
      [] status \in {"Resolved", "Closed"}  -> 4

\* C27: the status of a record only moves forward along the lifecycle: no
\* step takes a record to an earlier stage, and a record that is Resolved
\* or Closed stays Resolved or Closed.
C27_StatusMovesForward ==
    [][\A i \in Ids : Stage(store'[i].status) >= Stage(store[i].status)]_vars

\* C28: the record that a `merged` or `created` answer names is active
\* when the answer is given (its status is neither Resolved nor Closed):
\* no report is merged into a record that is Resolved or Closed.
C28_AnswerNamesActive ==
    [][\A r \in Reqs :
        (req[r].pc \in {"save_merge", "save_new"}
            /\ req'[r].status \in {"merged", "created"})
           => store'[req'[r].incident].status \notin {"Resolved", "Closed"}
    ]_vars

\* C29: every report with a known category, a description and coordinates
\* within the ranges, latitude 0 and longitude 0 among them, passes the
\* validation: the step that receives such a body takes the request to
\* its first store query.
C29_ZeroCoordinateAccepted ==
    [][\A r \in Reqs : \A b \in Reports :
        (WellFormed(b.type, b.description, b.lat, b.lng)
            /\ Receive(r, b.type, b.description, b.lat, b.lng))
           => req'[r].pc = "find_existing"
    ]_vars

\* C30: with the store and the oracle answering, a report that passed the
\* validation ends `merged` or `created`, whatever its category: no
\* request that got past the validation is answered with an error.
C30_ValidatedNeverFails ==
    \A r \in Reqs :
        req[r].pc = "done" => req[r].status \in {"merged", "created", "error400"}
====
